---------------------------- MODULE Spec2Model ----------------------------
(***************************************************************************)
(* Model of onionutil: onion-service descriptors (oniondesc.go) and the    *)
(* binary certificate parser of common.go.                                 *)
(*                                                                         *)
(* Representation.                                                         *)
(*  - A Go integer wider than 31 bits is a big-endian sequence of bytes of *)
(*    the width of its type (uint32: 4, int64/uint64: 8); the arithmetic   *)
(*    below wraps at that width as the Go operators do.                    *)
(*  - A byte string of the descriptor world is a sequence of items         *)
(*    [k |-> kind, v |-> payload]: a text character, a concrete byte, or   *)
(*    a block standing for the output of a codec or of a cryptographic     *)
(*    primitive (SHA-1 digest, DER encoding, base32 text, RSA signature).  *)
(*    SHA-1 and RSA are collision-free and unforgeable here: a digest is   *)
(*    named by its preimage, a signature by its signer and signed digest.  *)
(*  - The certificate buffer is a plain sequence of bytes with a length    *)
(*    and a capacity, as a Go slice.                                       *)
(***************************************************************************)
EXTENDS Integers, Sequences, FiniteSets, TLC

VARIABLES
    desc,       \* the OnionDescriptor the calls act on
    proc,       \* the process: "running", "exited" (log.Fatalf), "panicked"
    last,       \* the last call: its name, arguments and returned error
    signs,      \* number of successful Sign calls so far
    wire,       \* the serialization last produced by Bytes()
    docs,       \* tokenized records handed to the descriptor parser
    parsed,     \* what ParseOnionDescriptors returned
    binCert,    \* the slice handed to ParseCertFromBytes
    certRes     \* what ParseCertFromBytes returned

vars == <<desc, proc, last, signs, wire, docs, parsed, binCert, certRes>>

----------------------------------------------------------------------------
(* Bounds of the model *)

MaxSigns  == 2      \* successful Sign calls in one behaviour
MaxDocs   == 2      \* records in one tokenized batch
MaxExts   == 2      \* extensions encoded in one certificate buffer
MaxExtLen == 2      \* data bytes of one encoded extension

----------------------------------------------------------------------------
(* Fixed-width integer arithmetic on big-endian byte sequences *)

Front(s) == SubSeq(s, 1, Len(s) - 1)
Last(s)  == s[Len(s)]

RECURSIVE FromInt(_, _)
\* the w-byte big-endian encoding of n, 0 <= n < 2^31
FromInt(n, w) == IF w = 0 THEN <<>> ELSE FromInt(n \div 256, w - 1) \o <<n % 256>>

RECURSIVE ToInt(_)
\* the value of a byte sequence; defined for values below 2^31
ToInt(s) == IF s = <<>> THEN 0 ELSE ToInt(Front(s)) * 256 + Last(s)

\* conversion to a narrower unsigned type keeps the low-order bytes
Truncate(s, w) == SubSeq(s, Len(s) - w + 1, Len(s))

RECURSIVE AddC(_, _, _)
\* a + b + c modulo 256^Len(a), for sequences of equal length
AddC(a, b, c) ==
    IF a = <<>> THEN <<>>
    ELSE LET s == Last(a) + Last(b) + c
         IN  AddC(Front(a), Front(b), s \div 256) \o <<s % 256>>

AddW(a, b) == AddC(a, b, 0)

RECURSIVE SubB(_, _, _)
\* a - b - c modulo 256^Len(a)
SubB(a, b, c) ==
    IF a = <<>> THEN <<>>
    ELSE LET s == Last(a) - Last(b) - c
         IN  SubB(Front(a), Front(b), IF s < 0 THEN 1 ELSE 0) \o <<(s + 256) % 256>>

SubW(a, b) == SubB(a, b, 0)

RECURSIVE MulByteC(_, _, _)
\* a * k + c modulo 256^Len(a), for a byte k
MulByteC(a, k, c) ==
    IF a = <<>> THEN <<>>
    ELSE LET p == Last(a) * k + c
         IN  MulByteC(Front(a), k, p \div 256) \o <<p % 256>>

RECURSIVE MulW(_, _)
\* a * b modulo 256^Len(a)
MulW(a, b) ==
    IF b = <<>> THEN [i \in 1..Len(a) |-> 0]
    ELSE AddW(Tail(MulW(a, Front(b))) \o <<0>>, MulByteC(a, Last(b), 0))

RECURSIVE DivRem(_, _, _)
\* quotient and remainder of (r * 256^Len(a) + a) by d, for 0 < d < 2^23
DivRem(a, d, r) ==
    IF a = <<>> THEN [q |-> <<>>, r |-> r]
    ELSE LET cur  == r * 256 + Head(a)
             rest == DivRem(Tail(a), d, cur % d)
         IN  [q |-> <<cur \div d>> \o rest.q, r |-> rest.r]

DivW(a, d) == DivRem(a, d, 0).q
ModW(a, d) == DivRem(a, d, 0).r

\* two's complement: sign bit and negation
IsNeg(a) == a[1] >= 128
NegW(a)  == AddC([i \in 1..Len(a) |-> 255 - a[i]], [i \in 1..Len(a) |-> 0], 1)

RECURSIVE BitLenByte(_)
BitLenByte(b) == IF b = 0 THEN 0 ELSE 1 + BitLenByte(b \div 2)

RECURSIVE BitLen(_)
\* number of significant bits of a byte sequence
BitLen(a) ==
    IF a = <<>> THEN 0
    ELSE IF Head(a) # 0 THEN 8 * (Len(a) - 1) + BitLenByte(Head(a))
    ELSE BitLen(Tail(a))

RECURSIVE Pow2(_)
Pow2(n) == IF n = 0 THEN 1 ELSE 2 * Pow2(n - 1)

----------------------------------------------------------------------------
(* Items of byte strings *)

Ch(c)       == [k |-> "ch", v |-> c]
By(n)       == [k |-> "byte", v |-> n]
Items(bs)   == [i \in 1..Len(bs) |-> By(bs[i])]


\* crypto/sha1: a 20-byte digest, named by its preimage
Hash(data) == <<[k |-> "sha1", v |-> data]>>

\* the slice expression derHash[:10]
Head10(h) == <<[k |-> "sha1[:10]", v |-> h[1].v]>>

----------------------------------------------------------------------------
(* Public keys and the DER codec (package pkcs1) *)

GoodKeys == {"kA", "kB"}
BadKey   == "kBad"         \* a key the DER encoder rejects
Keys     == GoodKeys \cup {BadKey}
NoKey    == "nil"

EncodePublicKeyDER(pk) ==
    IF pk \in GoodKeys
    THEN [der |-> <<[k |-> "der", v |-> pk]>>, err |-> "nil"]
    ELSE [der |-> <<>>, err |-> "asn1: structure error"]

DecodePublicKeyDER(der) ==
    IF \E pk \in GoodKeys : der = EncodePublicKeyDER(pk).der
    THEN [pk |-> (CHOOSE pk \in GoodKeys : der = EncodePublicKeyDER(pk).der), err |-> "nil"]
    ELSE [pk |-> NoKey, err |-> "asn1: syntax error"]

\* leading byte of the SHA-1 digest of a key's DER encoding
Sha1LeadByte(pre) ==
    IF pre = EncodePublicKeyDER("kA").der THEN 1
    ELSE IF pre = EncodePublicKeyDER("kB").der THEN 255
    ELSE 0

RSAPubkeyHash(pk) ==
    LET e == EncodePublicKeyDER(pk)
    IN  IF e.err # "nil" THEN [hash |-> <<>>, err |-> e.err]
        ELSE [hash |-> Hash(e.der), err |-> "nil"]

CalcPermanentId(pk) ==
    LET h == RSAPubkeyHash(pk)
    IN  IF h.err # "nil" THEN [permId |-> <<>>, err |-> h.err]
        ELSE [permId |-> Head10(h.hash), err |-> "nil"]

\* the index expression permID[0]
PermIdByte0(permID) == Sha1LeadByte(permID[1].v)

Base32Encode(bin) == IF bin = <<>> THEN <<>> ELSE <<[k |-> "base32", v |-> bin]>>

----------------------------------------------------------------------------
(* OnionDescriptor *)

MinReplica       == 0
MaxReplica       == 1
DescVersion      == 2
ProtocolVersions == <<2, 3>>

ZeroTime    == [isZero |-> TRUE,  unix |-> FromInt(0, 8)]
TimeUnix(s) == [isZero |-> FALSE, unix |-> s]

NewDescriptor(pk, intro) ==
    [DescID           |-> <<>>,
     Version          |-> 0,
     PermanentKey     |-> pk,
     SecretIDPart     |-> <<>>,
     PublicationTime  |-> ZeroTime,
     ProtocolVersions |-> <<>>,
     IntropointsBlock |-> intro,
     Signature        |-> <<>>]

\* byte(replica)
ReplicaByte(replica) == replica % 256

\* calcSecretID with the skew computed as permIDByte * (86400 / 256)
calcSecretID_DivideFirst(permID, currentTime, replica) ==
    LET permIDByte    == FromInt(PermIdByte0(permID), 4)
        skew          == MulW(permIDByte, FromInt(86400 \div 256, 4))
        timePeriodInt == DivW(AddW(Truncate(currentTime, 4), skew), 86400)
    IN  Hash(Items(timePeriodInt) \o <<By(replica)>>)

calcSecretID(permID, currentTime, replica) ==
    LET permIDByte    == FromInt(PermIdByte0(permID), 4)
        skew          == DivW(MulW(permIDByte, FromInt(86400, 4)), 256)
        timePeriodInt == DivW(AddW(Truncate(currentTime, 4), skew), 86400)
    IN  Hash(Items(timePeriodInt) \o <<By(replica)>>)

calcDescriptorID(permID, secretID) == Hash(permID \o secretID)

\* the replica test of Update, as written
ReplicaOutOfRange(replica) == ~(MinReplica <= replica \/ replica <= MaxReplica)

\* Update(replica) at clock reading currentTime: the descriptor it leaves
\* and the error it returns
Update(d, replica, currentTime) ==
    LET roundedCurrentTime == SubW(currentTime, FromInt(ModW(currentTime, 60 * 60), 8))
        d1 == [d EXCEPT !.Version = DescVersion,
                        !.ProtocolVersions = ProtocolVersions,
                        !.PublicationTime = TimeUnix(roundedCurrentTime)]
        p  == CalcPermanentId(d.PermanentKey)
        secretID == calcSecretID(p.permId, currentTime, ReplicaByte(replica))
    IN  IF p.err # "nil" THEN [desc |-> d1, err |-> p.err]
        ELSE IF ReplicaOutOfRange(replica)
             THEN [desc |-> d1, err |-> "Replica is out of range"]
        ELSE [desc |-> [d1 EXCEPT !.SecretIDPart = secretID,
                                  !.DescID = calcDescriptorID(p.permId, secretID)],
              err |-> "nil"]

----------------------------------------------------------------------------
(* Serialization *)

Digits == <<"0", "1", "2", "3", "4", "5", "6", "7", "8", "9">>

RECURSIVE FormatNat(_)
FormatNat(n) ==
    IF n < 10 THEN <<Ch(Digits[n + 1])>>
    ELSE FormatNat(n \div 10) \o <<Ch(Digits[(n % 10) + 1])>>

\* fmt verb %d
FormatInt(n) == IF n < 0 THEN <<Ch("-")>> \o FormatNat(-n) ELSE FormatNat(n)

\* time.Format("2006-01-02 15:04:05"): a date word, a space, a clock word
FormatTime(t) ==
    <<[k |-> "2006-01-02", v |-> t], Ch(" "), [k |-> "15:04:05", v |-> t]>>

RECURSIVE JoinWith(_, _)
\* bytes.Join / strings.Join
JoinWith(words, sep) ==
    IF words = <<>> THEN <<>>
    ELSE IF Len(words) = 1 THEN words[1]
    ELSE words[1] \o sep \o JoinWith(Tail(words), sep)

NoPEM == <<>>
PEM(type, bytes) == <<[type |-> type, bytes |-> bytes]>>
Line(kw, text, pem) == [kw |-> kw, text |-> text, pem |-> pem]

\* desc.Bytes(): the lines written, or the process exit of log.Fatalf
Bytes(d) ==
    LET e == EncodePublicKeyDER(d.PermanentKey)
        protoversions == [i \in 1..Len(d.ProtocolVersions) |->
                              FormatInt(d.ProtocolVersions[i])]
    IN  IF e.err # "nil" THEN [exit |-> TRUE, out |-> <<>>]
        ELSE [exit |-> FALSE,
              out |->
                <<Line("rendezvous-service-descriptor", Base32Encode(d.DescID), NoPEM),
                  Line("version", FormatInt(d.Version), NoPEM),
                  Line("permanent-key", <<>>, PEM("RSA PUBLIC KEY", e.der)),
                  Line("secret-id-part", Base32Encode(d.SecretIDPart), NoPEM),
                  Line("publication-time", FormatTime(d.PublicationTime), NoPEM),
                  Line("protocol-versions", JoinWith(protoversions, <<Ch(",")>>), NoPEM)>>
                \o (IF Len(d.IntropointsBlock) > 0
                    THEN <<Line("introduction-points", <<>>,
                                PEM("MESSAGE", d.IntropointsBlock))>>
                    ELSE <<>>)
                \o <<Line("signature", <<>>,
                          IF Len(d.Signature) > 0
                          THEN PEM("SIGNATURE", d.Signature) ELSE NoPEM)>>]

----------------------------------------------------------------------------
(* Signing and verification *)

Callbacks == {"correct", "failing"}

\* the doSign callback: an RSA signature of the digest under the private
\* half of pk, or an error
doSign(cb, pk, digest) ==
    IF cb = "correct"
    THEN [sig |-> <<[k |-> "rsasig", v |-> [signer |-> pk, over |-> digest]]>>,
          err |-> "nil"]
    ELSE [sig |-> <<>>, err |-> "signing failed"]

\* rsa.VerifyPKCS1v15(pk, 0, digest, sig)
VerifyPKCS1v15(pk, digest, sig) ==
    IF sig = <<[k |-> "rsasig", v |-> [signer |-> pk, over |-> digest]]>>
    THEN "nil" ELSE "crypto/rsa: verification error"

Sign(d, cb) ==
    LET b == Bytes(d)
        s == doSign(cb, d.PermanentKey, Hash(b.out))
    IN  IF b.exit THEN [exit |-> TRUE, desc |-> d, err |-> "nil"]
        ELSE IF s.err # "nil" THEN [exit |-> FALSE, desc |-> d, err |-> s.err]
        ELSE [exit |-> FALSE, desc |-> [d EXCEPT !.Signature = s.sig], err |-> "nil"]

\* VerifySignature without the assignment that restores desc.Signature
VerifySignature_NoRestore(d) ==
    LET signature == d.Signature
        cleared   == [d EXCEPT !.Signature = <<>>]
        b         == Bytes(cleared)
    IN  IF b.exit THEN [exit |-> TRUE, desc |-> cleared, err |-> "nil"]
        ELSE [exit |-> FALSE,
              desc |-> cleared,
              err  |-> VerifyPKCS1v15(d.PermanentKey, Hash(b.out), signature)]

VerifySignature(d) ==
    LET signature == d.Signature
        cleared   == [d EXCEPT !.Signature = <<>>]
        b         == Bytes(cleared)
    IN  IF b.exit THEN [exit |-> TRUE, desc |-> cleared, err |-> "nil"]
        ELSE [exit |-> FALSE,
              desc |-> [cleared EXCEPT !.Signature = signature],
              err  |-> VerifyPKCS1v15(d.PermanentKey, Hash(b.out), signature)]

----------------------------------------------------------------------------
(* The document tokenizer (package torparse) *)

RECURSIVE Fields(_, _)
\* bytes.Fields: the words of a text, split at spaces; cur is the word
\* being read
Fields(text, cur) ==
    IF text = <<>> THEN (IF cur = <<>> THEN <<>> ELSE <<cur>>)
    ELSE IF Head(text) = Ch(" ")
         THEN (IF cur = <<>> THEN <<>> ELSE <<cur>>) \o Fields(Tail(text), <<>>)
    ELSE Fields(Tail(text), Append(cur, Head(text)))

\* the entry of one line: its argument words, then its decoded PEM object
EntryOf(line) ==
    Fields(line.text, <<>>) \o (IF line.pem = NoPEM THEN <<>> ELSE <<line.pem[1].bytes>>)

Lookup(doc, kw) == IF kw \in DOMAIN doc THEN doc[kw] ELSE <<>>

AddEntry(doc, kw, entry) ==
    [f \in DOMAIN doc \cup {kw} |-> IF f = kw THEN Append(Lookup(doc, kw), entry) ELSE doc[f]]

EmptyDoc == [f \in {} |-> <<>>]

RECURSIVE Tokenize(_, _, _)
\* the records of a text: the keyword of the first line opens a new record
\* each time it recurs
Tokenize(lines, first, cur) ==
    IF lines = <<>> THEN (IF cur = EmptyDoc THEN <<>> ELSE <<cur>>)
    ELSE LET l == Head(lines)
         IN  IF l.kw = first /\ cur # EmptyDoc
             THEN <<cur>> \o Tokenize(Tail(lines), first, AddEntry(EmptyDoc, l.kw, EntryOf(l)))
             ELSE Tokenize(Tail(lines), first, AddEntry(cur, l.kw, EntryOf(l)))

ParseTorDocument(data) ==
    [docs |-> IF data = <<>> THEN <<>> ELSE Tokenize(data, data[1].kw, EmptyDoc),
     rest |-> <<>>]

RECURSIVE Flatten(_)
Flatten(entries) == IF entries = <<>> THEN <<>> ELSE Head(entries) \o Flatten(Tail(entries))

\* all values of a field joined; nothing for a field the record lacks
FJoined(entries) == JoinWith(Flatten(entries), <<Ch(" ")>>)

----------------------------------------------------------------------------
(* Parsing descriptors *)

IsDigit(item) == item.k = "ch" /\ \E i \in 1..10 : Digits[i] = item.v
DigitVal(item) == (CHOOSE i \in 1..10 : Digits[i] = item.v) - 1

RECURSIVE ParseDigits(_, _)
ParseDigits(text, acc) ==
    IF text = <<>> THEN acc
    ELSE ParseDigits(Tail(text), acc * 10 + DigitVal(Head(text)))

\* strconv.ParseInt(s, 10, 0); the texts of the model stay far below the
\* 64-bit range, so the range error cannot arise
ParseInt(text) ==
    LET signed == text # <<>> /\ (text[1] = Ch("-") \/ text[1] = Ch("+"))
        digits == IF signed THEN Tail(text) ELSE text
    IN  IF digits = <<>> \/ \E i \in 1..Len(digits) : ~IsDigit(digits[i])
        THEN [n |-> 0, err |-> "invalid syntax"]
        ELSE [n |-> IF signed /\ text[1] = Ch("-")
                    THEN 0 - ParseDigits(digits, 0) ELSE ParseDigits(digits, 0),
              err |-> "nil"]

\* ParseRecord without the test for an empty signature
ParseRecord_KeepEmptySignature(doc) ==
    LET version      == ParseInt(FJoined(Lookup(doc, "version")))
        permanentKey == DecodePublicKeyDER(FJoined(Lookup(doc, "permanent-key")))
        signature    == Lookup(doc, "signature")
        d == [DescID           |-> FJoined(Lookup(doc, "rendezvous-service-descriptor")),
              Version          |-> version.n,
              PermanentKey     |-> permanentKey.pk,
              SecretIDPart     |-> <<>>,
              PublicationTime  |-> ZeroTime,
              ProtocolVersions |-> <<>>,
              IntropointsBlock |-> FJoined(Lookup(doc, "introduction-points")),
              Signature        |-> FJoined(signature)]
    IN  IF "rendezvous-service-descriptor" \notin DOMAIN doc THEN [kind |-> "skip"]
        ELSE IF version.err # "nil" THEN [kind |-> "skip"]
        ELSE IF permanentKey.err # "nil" THEN [kind |-> "skip"]
        ELSE IF Len(signature) = 0 THEN [kind |-> "panic"]
        ELSE [kind |-> "desc", desc |-> d]

\* one iteration of the loop of ParseOnionDescriptors
ParseRecord(doc) ==
    LET version      == ParseInt(FJoined(Lookup(doc, "version")))
        permanentKey == DecodePublicKeyDER(FJoined(Lookup(doc, "permanent-key")))
        signature    == Lookup(doc, "signature")
        d == [DescID           |-> FJoined(Lookup(doc, "rendezvous-service-descriptor")),
              Version          |-> version.n,
              PermanentKey     |-> permanentKey.pk,
              SecretIDPart     |-> <<>>,
              PublicationTime  |-> ZeroTime,
              ProtocolVersions |-> <<>>,
              IntropointsBlock |-> FJoined(Lookup(doc, "introduction-points")),
              Signature        |-> FJoined(signature)]
    IN  IF "rendezvous-service-descriptor" \notin DOMAIN doc THEN [kind |-> "skip"]
        ELSE IF version.err # "nil" THEN [kind |-> "skip"]
        ELSE IF permanentKey.err # "nil" THEN [kind |-> "skip"]
        ELSE IF Len(signature) = 0 THEN [kind |-> "panic"]
        ELSE IF Len(signature[1]) < 1 THEN [kind |-> "skip"]
        ELSE [kind |-> "desc", desc |-> d]

RECURSIVE ParseRecords(_, _)
\* the loop over the tokenized records, descs being the result so far
ParseRecords(ds, descs) ==
    IF ds = <<>> THEN [status |-> "returned", descs |-> descs]
    ELSE LET r == ParseRecord(Head(ds))
         IN  IF r.kind = "panic" THEN [status |-> "panic", descs |-> <<>>]
             ELSE IF r.kind = "skip" THEN ParseRecords(Tail(ds), descs)
             ELSE ParseRecords(Tail(ds), Append(descs, r.desc))

ParseOnionDescriptors(descsData) ==
    ParseRecords(ParseTorDocument(descsData).docs, <<>>)

----------------------------------------------------------------------------
(* The descriptor life cycle: Update, Sign, VerifySignature *)

\* readings of time.Now().Unix(), as int64: 338 (00:05:38 on day 0) and
\* 2^32 + 86063
Times == {FromInt(338, 8), <<0, 0, 0, 1, 0, 1, 80, 47>>}

Replicas == (MinReplica - 1) .. (MaxReplica + 1)

Intros == {<<>>, <<By(7)>>}

NoCall == [op |-> "none", err |-> "nil", replica |-> 0, now |-> FromInt(0, 8), cb |-> "none"]

NoWire   == [exit |-> FALSE, out |-> <<>>]
NoParse  == [status |-> "none", descs |-> <<>>]
NoBuffer == [arr |-> <<>>, len |-> 0]
NoCert   == [status |-> "none"]

UpdateAct(replica, currentTime) ==
    /\ proc = "running"
    /\ LET u == Update(desc, replica, currentTime)
       IN  /\ desc' = u.desc
           /\ last' = [op |-> "Update", err |-> u.err, replica |-> replica,
                       now |-> currentTime, cb |-> "none"]
    /\ UNCHANGED <<proc, signs, wire, docs, parsed, binCert, certRes>>

SignAct(cb) ==
    /\ proc = "running"
    /\ signs < MaxSigns
    /\ LET s == Sign(desc, cb)
       IN  /\ desc' = s.desc
           /\ proc' = IF s.exit THEN "exited" ELSE "running"
           /\ signs' = IF ~s.exit /\ s.err = "nil" THEN signs + 1 ELSE signs
           /\ last' = [NoCall EXCEPT !.op = "Sign", !.err = s.err, !.cb = cb]
    /\ UNCHANGED <<wire, docs, parsed, binCert, certRes>>

VerifyAct ==
    /\ proc = "running"
    /\ LET v == VerifySignature(desc)
       IN  /\ desc' = v.desc
           /\ proc' = IF v.exit THEN "exited" ELSE "running"
           /\ last' = [NoCall EXCEPT !.op = "Verify", !.err = v.err]
    /\ UNCHANGED <<signs, wire, docs, parsed, binCert, certRes>>

Init ==
    /\ desc \in {NewDescriptor(pk, <<By(7)>>) : pk \in Keys}
    /\ proc = "running"
    /\ last = NoCall
    /\ signs = 0
    /\ wire = NoWire
    /\ docs = <<>>
    /\ parsed = NoParse
    /\ binCert = NoBuffer
    /\ certRes = NoCert

Next ==
    \/ \E replica \in Replicas, currentTime \in Times : UpdateAct(replica, currentTime)
    \/ \E cb \in Callbacks : SignAct(cb)
    \/ VerifyAct

Spec == Init /\ [][Next]_vars

----------------------------------------------------------------------------
(* The descriptor codec: Bytes, then ParseOnionDescriptors of its output *)

\* descriptors a caller can hold: fresh, updated, signed, or filled in by hand
SomeSecretID == calcSecretID(CalcPermanentId("kA").permId, FromInt(338, 8), 0)
SomeDescID   == calcDescriptorID(CalcPermanentId("kA").permId, SomeSecretID)
SomeSignature(pk) == doSign("correct", pk, Hash(<<>>)).sig

CodecDescriptors ==
    {[DescID           |-> id,
      Version          |-> ver,
      PermanentKey     |-> pk,
      SecretIDPart     |-> sec,
      PublicationTime  |-> pt,
      ProtocolVersions |-> pv,
      IntropointsBlock |-> intro,
      Signature        |-> sig] :
        id \in {<<>>, SomeDescID}, ver \in {0, DescVersion, -1}, pk \in Keys,
        sec \in {<<>>, SomeSecretID}, pt \in {ZeroTime, TimeUnix(FromInt(3600, 8))},
        pv \in {<<>>, ProtocolVersions}, intro \in Intros,
        sig \in {<<>>, SomeSignature("kA")}}

SerializeAct ==
    /\ proc = "running"
    /\ LET b == Bytes(desc)
       IN  /\ wire' = b
           /\ proc' = IF b.exit THEN "exited" ELSE "running"
    /\ last' = [NoCall EXCEPT !.op = "Bytes"]
    /\ UNCHANGED <<desc, signs, docs, parsed, binCert, certRes>>

ParseWireAct ==
    /\ proc = "running"
    /\ last.op = "Bytes"
    /\ LET r == ParseOnionDescriptors(wire.out)
       IN  /\ parsed' = r
           /\ proc' = IF r.status = "panic" THEN "panicked" ELSE "running"
    /\ last' = [NoCall EXCEPT !.op = "Parse"]
    /\ UNCHANGED <<desc, signs, wire, docs, binCert, certRes>>

InitCodec ==
    /\ desc \in CodecDescriptors
    /\ proc = "running"
    /\ last = NoCall
    /\ signs = 0
    /\ wire = NoWire
    /\ docs = <<>>
    /\ parsed = NoParse
    /\ binCert = NoBuffer
    /\ certRes = NoCert

NextCodec == SerializeAct \/ ParseWireAct

SpecCodec == InitCodec /\ [][NextCodec]_vars

----------------------------------------------------------------------------
(* ParseOnionDescriptors on arbitrary tokenized records *)

MkDoc(pairs) ==
    [f \in {p[1] : p \in pairs} |-> (CHOOSE p \in pairs : p[1] = f)[2]]

Text(chars) == [i \in 1..Len(chars) |-> Ch(chars[i])]

\* the fields a record may carry: each set holds the alternatives for one
\* keyword, the empty set of pairs standing for a missing field
MarkerFields  == {{}, {<<"rendezvous-service-descriptor", << <<Text(<<"a">>)>> >> >>},
                      {<<"rendezvous-service-descriptor", << <<Text(<<"b">>)>> >> >>}}
VersionFields == {{<<"version", << <<Text(<<"2">>)>> >> >>},
                  {<<"version", << <<Text(<<"x">>)>> >> >>}}
KeyFields     == {{<<"permanent-key", << <<EncodePublicKeyDER("kA").der>> >> >>},
                  {<<"permanent-key", << <<Text(<<"x">>)>> >> >>}}
SigFields     == {{}, {<<"signature", << <<>> >> >>},
                      {<<"signature", << <<SomeSignature("kA")>> >> >>}}

Records ==
    {MkDoc(m \cup v \cup k \cup s) :
        m \in MarkerFields, v \in VersionFields, k \in KeyFields, s \in SigFields}

RECURSIVE SeqsUpTo(_, _)
\* the sequences over S of length at most n
SeqsUpTo(S, n) ==
    IF n = 0 THEN {<<>>}
    ELSE LET shorter == SeqsUpTo(S, n - 1)
         IN  shorter \cup {Append(q, x) : q \in shorter, x \in S}

ParseDocsAct ==
    /\ proc = "running"
    /\ last.op = "none"
    /\ LET r == ParseRecords(docs, <<>>)
       IN  /\ parsed' = r
           /\ proc' = IF r.status = "panic" THEN "panicked" ELSE "running"
    /\ last' = [NoCall EXCEPT !.op = "Parse"]
    /\ UNCHANGED <<desc, signs, wire, docs, binCert, certRes>>

InitParse ==
    /\ docs \in SeqsUpTo(Records, MaxDocs)
    /\ desc = NewDescriptor(NoKey, <<>>)
    /\ proc = "running"
    /\ last = NoCall
    /\ signs = 0
    /\ wire = NoWire
    /\ parsed = NoParse
    /\ binCert = NoBuffer
    /\ certRes = NoCert

NextParse == ParseDocsAct

SpecParse == InitParse /\ [][NextParse]_vars

----------------------------------------------------------------------------
(* Certificates: ParseCertFromBytes *)

Ed25519PubkeySize    == 32
Ed25519SignatureSize == 64

\* a slice b = [arr, len]: arr is the backing array from the slice's first
\* element on, so the capacity is Len(arr); positions count from 0
Cap(b)           == Len(b.arr)
At(b, i)         == b.arr[i + 1]
IndexOK(b, i)    == i < b.len                      \* b[i] does not panic
SliceOK(b, i, j) == i <= j /\ j <= Cap(b)          \* b[i:j] does not panic
Slice(b, i, j)   == SubSeq(b.arr, i + 1, j)

\* binary.BigEndian.Uint16
Uint16(bs) == bs[1] * 256 + bs[2]

\* time.Hour, in nanoseconds, as int64
Hour == <<0, 0, 3, 70, 48, 184, 160, 0>>

\* time.Duration.Seconds() converted back to int64:
\*   sec := d / Second; nsec := d % Second
\*   int64(float64(sec) + float64(nsec)/1e9)
\* The division truncates toward zero.  The float64 sum has 53 significant
\* bits: it rounds up to the next whole second when the fraction is within
\* half a unit in the last place of one.
SecondsInt64(d) ==
    LET neg  == IsNeg(d)
        mag  == IF neg THEN NegW(d) ELSE d
        y    == DivRem(mag, 512, 0)
        z    == DivRem(y.q, 1953125, 0)          \* 512 * 1953125 = 10^9
        sec  == z.q
        nsec == z.r * 512 + y.r
        k    == BitLen(sec) - 1
        up   == IF k >= 24 /\ (1000000000 - nsec) <= 1000000000 \div Pow2(53 - k)
                THEN 1 ELSE 0
        res  == AddW(sec, FromInt(up, 8))
    IN  IF neg THEN NegW(res) ELSE res

\* expirationHours (4 bytes) to the Unix seconds of cert.ExpirationDate
ExpirationUnix(expirationHours) ==
    LET expirationDuration == MulW(<<0, 0, 0, 0>> \o expirationHours, Hour)
    IN  SecondsInt64(expirationDuration)

NoExtensions == [t \in {} |-> [Type |-> 0, Flags |-> 0, Data |-> <<>>]]

\* PutExtension keeping the extension already stored under the type
PutExtension_KeepFirst(exts, ext) ==
    [t \in DOMAIN exts \cup {ext.Type} |-> IF t \in DOMAIN exts THEN exts[t] ELSE ext]

\* cert.Extensions[extension.Type] = extension
PutExtension(exts, ext) ==
    [t \in DOMAIN exts \cup {ext.Type} |-> IF t = ext.Type THEN ext ELSE exts[t]]

RECURSIVE ParseExtensions(_, _, _, _)
\* the extension loop from position i with n iterations left
ParseExtensions(b, i, n, exts) ==
    IF n = 0 THEN [status |-> "ok", i |-> i, exts |-> exts]
    ELSE IF ~SliceOK(b, i, i + 2) THEN [status |-> "panic"]
    ELSE LET extLength == Uint16(Slice(b, i, i + 2))
         IN  IF ~IndexOK(b, i + 2) THEN [status |-> "panic"]
             ELSE IF ~IndexOK(b, i + 3) THEN [status |-> "panic"]
             ELSE IF ~SliceOK(b, i + 4, i + 4 + extLength) THEN [status |-> "panic"]
             ELSE ParseExtensions(b, i + 4 + extLength, n - 1,
                      PutExtension(exts,
                          [Type  |-> At(b, i + 2),
                           Flags |-> At(b, i + 3),
                           Data  |-> Slice(b, i + 4, i + 4 + extLength)]))

\* the certificate and the final value of the index i, or a run-time panic;
\* the function has no return statement with a non-nil error
ParseCertFromBytes(b) ==
    IF ~IndexOK(b, 0) \/ ~IndexOK(b, 1) THEN [status |-> "panic"]
    ELSE IF ~SliceOK(b, 2, 6) THEN [status |-> "panic"]
    ELSE IF ~IndexOK(b, 6) THEN [status |-> "panic"]
    ELSE IF ~SliceOK(b, 7, 7 + Ed25519PubkeySize) THEN [status |-> "panic"]
    ELSE IF ~IndexOK(b, 7 + Ed25519PubkeySize) THEN [status |-> "panic"]
    ELSE LET j == 7 + Ed25519PubkeySize
             x == ParseExtensions(b, j + 1, At(b, j), NoExtensions)
         IN  IF x.status = "panic" THEN [status |-> "panic"]
             ELSE IF ~SliceOK(b, x.i, x.i + Ed25519SignatureSize)
                  THEN [status |-> "panic"]
             ELSE [status |-> "ok",
                   i      |-> x.i + Ed25519SignatureSize,
                   cert   |-> [Version        |-> At(b, 0),
                               CertType       |-> At(b, 1),
                               ExpirationDate |-> ExpirationUnix(Slice(b, 2, 6)),
                               CertKeyType    |-> At(b, 6),
                               CertifiedKey   |-> Slice(b, 7, j),
                               NExtensions    |-> At(b, j),
                               Extensions     |-> x.exts,
                               Signature      |-> Slice(b, x.i, x.i + Ed25519SignatureSize),
                               PubkeySign     |-> FALSE]]

----------------------------------------------------------------------------
(* Properties of Update *)

\* the identifiers as the specification states them, in plain integers:
\* the 32-bit clock reading u, the leading byte b of the permanent identifier
SpecTimePeriod(u, b) == (u + (b * 86400) \div 256) \div 86400
SpecSecretID(u, b, replicaByte) ==
    Hash(Items(FromInt(SpecTimePeriod(u, b), 4)) \o <<By(replicaByte)>>)
SpecPermId(pk) == Head10(Hash(EncodePublicKeyDER(pk).der))
Low32(t) == ToInt(Truncate(t, 4))

UpdateReturned == last.op = "Update" /\ last.err = "nil"

\* C1: Update with a replica outside [MinReplica, MaxReplica] returns an
\* error and leaves every field of the descriptor as it was (stated for the
\* keys that encode, where no other error can arise).
C1_UpdateRejectsReplicaOutOfRange ==
    [][(/\ last'.op = "Update"
        /\ desc.PermanentKey \in GoodKeys
        /\ last'.replica \notin MinReplica..MaxReplica)
       => (last'.err # "nil" /\ desc' = desc)]_vars

\* C2 as stated: after a successful Update with a valid replica the secret
\* identifier is the hash of the time period of the descriptor's own
\* publicationTime and the replica, and the descriptor identifier is the
\* hash of the permanent identifier and the secret identifier.
C2_SecretIdFromPublicationTime ==
    (UpdateReturned /\ last.replica \in MinReplica..MaxReplica) =>
        /\ desc.SecretIDPart =
             SpecSecretID(Low32(desc.PublicationTime.unix),
                          Sha1LeadByte(EncodePublicKeyDER(desc.PermanentKey).der),
                          last.replica)
        /\ desc.DescID = Hash(SpecPermId(desc.PermanentKey) \o desc.SecretIDPart)

\* C2 amended: after every successful Update the secret identifier is the
\* hash of the time period of the clock reading of the call, taken as an
\* unsigned 32-bit value and not rounded to the hour, and of the replica as a
\* byte; the descriptor identifier is the hash of the permanent identifier
\* and the secret identifier.
C2_SecretIdFromCurrentTime ==
    UpdateReturned =>
        /\ desc.SecretIDPart =
             SpecSecretID(Low32(last.now),
                          Sha1LeadByte(EncodePublicKeyDER(desc.PermanentKey).der),
                          last.replica % 256)
        /\ desc.DescID = Hash(SpecPermId(desc.PermanentKey) \o desc.SecretIDPart)

\* a successful Update at a clock reading whose time period differs from
\* that of the hour it is rounded to
C2_Witness ==
    /\ UpdateReturned
    /\ desc.PermanentKey = "kB"
    /\ last.replica = MaxReplica
    /\ SpecTimePeriod(Low32(last.now), 255)
         # SpecTimePeriod(Low32(desc.PublicationTime.unix), 255)

----------------------------------------------------------------------------
(* Properties of Sign and VerifySignature *)

\* C3: a Sign with a correct callback that returns without error, followed
\* by VerifySignature, makes VerifySignature succeed, whether or not the
\* descriptor already held a signature.
C3_SignThenVerifySucceeds ==
    [][(/\ last.op = "Sign" /\ last.cb = "correct" /\ last.err = "nil"
        /\ proc = "running"
        /\ last'.op = "Verify")
       => (proc' = "running" /\ last'.err = "nil")]_vars

\* C9: a VerifySignature that returns leaves every field of the descriptor,
\* the signature included, as it was before the call, whether it reports
\* success or a mismatch.
C9_VerifyLeavesDescriptorUnchanged ==
    [][(last'.op = "Verify" /\ proc' = "running") => desc' = desc]_vars

\* VerifySignature has returned a mismatch for a descriptor that holds a
\* signature
C9_Witness ==
    /\ last.op = "Verify"
    /\ proc = "running"
    /\ last.err # "nil"
    /\ desc.Signature # <<>>

----------------------------------------------------------------------------
(* Properties of the codec *)

ParseReturnedFor == last.op = "Parse" /\ wire = Bytes(desc)

\* C4 as stated: parsing the serialization of a descriptor without a
\* signature yields exactly that descriptor, equal in every field.
C4_RoundTripYieldsDescriptor ==
    (ParseReturnedFor /\ desc.Signature = <<>>) =>
        (proc = "running" /\ parsed.descs = <<desc>>)

\* C4 amended: parsing the serialization of a descriptor without a signature
\* returns no descriptor: the record's signature field is empty, and the
\* parser skips such a record.
C4_UnsignedRoundTripYieldsNothing ==
    (ParseReturnedFor /\ desc.Signature = <<>>) =>
        (proc = "running" /\ parsed.status = "returned" /\ parsed.descs = <<>>)

\* the serialization of an updated, unsigned descriptor has been parsed
C4_Witness ==
    /\ ParseReturnedFor
    /\ desc.Signature = <<>>
    /\ desc.DescID # <<>>
    /\ desc.SecretIDPart # <<>>
    /\ desc.Version = DescVersion

\* C7: no operation terminates the process; Bytes of a descriptor whose key
\* does not encode returns to its caller.
C7_NoOperationTerminatesProcess == proc # "exited"

\* a record the specification calls well-formed
WellFormedRecord(doc) ==
    /\ "rendezvous-service-descriptor" \in DOMAIN doc
    /\ "version" \in DOMAIN doc /\ ParseInt(FJoined(doc["version"])).err = "nil"
    /\ "permanent-key" \in DOMAIN doc
    /\ DecodePublicKeyDER(FJoined(doc["permanent-key"])).err = "nil"
    /\ "signature" \in DOMAIN doc /\ FJoined(doc["signature"]) # <<>>

\* C5: the parser returns for every batch of records, and returns the
\* well-formed records of the batch in their order.
C5_ParseSkipsMalformedRecords ==
    last.op = "Parse" =>
        LET wf == SelectSeq(docs, WellFormedRecord)
        IN  /\ proc = "running"
            /\ parsed.status = "returned"
            /\ Len(parsed.descs) = Len(wf)
            /\ \A i \in 1..Len(wf) :
                 parsed.descs[i].DescID = FJoined(wf[i]["rendezvous-service-descriptor"])

----------------------------------------------------------------------------
(* Certificate buffers *)

KeyBytes == [i \in 1..Ed25519PubkeySize |-> 100 + i]
SigBytes == [i \in 1..Ed25519SignatureSize |-> 150 + i]

EncodeExt(e) == FromInt(e.declared, 2) \o <<e.type, e.flags>> \o e.data

RECURSIVE EncodeExts(_)
EncodeExts(es) == IF es = <<>> THEN <<>> ELSE EncodeExt(Head(es)) \o EncodeExts(Tail(es))

\* the wire form of a certificate announcing n extensions, with one byte
\* that follows it in the buffer
CertBytes(hours, n, es) ==
    <<1, 4>> \o hours \o <<1>> \o KeyBytes \o <<n>> \o EncodeExts(es) \o SigBytes \o <<250>>

ExtTypes == {4, 5}
ExtData(n) == [i \in 1..n |-> 10 + i]

ExtLens == {0, MaxExtLen}

\* extensions whose declared length is the length of their data
SoundExts ==
    {[type |-> t, flags |-> 1, data |-> ExtData(n), declared |-> n] :
        t \in ExtTypes, n \in ExtLens}

\* extensions whose declared length may exceed their data
AnyExts ==
    {[type |-> t, flags |-> 1, data |-> ExtData(n), declared |-> n + more] :
        t \in ExtTypes, n \in ExtLens, more \in {0, 1, 256}}

HourBytes == {0, 1, 23, 24, 39, 255}

\* the first cut bytes of a wire form, as a slice whose backing array holds
\* up to slack further bytes of it
Buffer(bytes, cut, slack) ==
    [arr |-> SubSeq(bytes, 1, IF cut + slack <= Len(bytes) THEN cut + slack ELSE Len(bytes)),
     len |-> cut]

Prefixes(bytes) == {Buffer(bytes, cut, slack) : cut \in 0..Len(bytes), slack \in 0..1}

\* the buffers handed to the parser
IsCertBuffer(b) ==
    \* well-formed certificates, whole or cut short at any byte
    \/ \E es \in SeqsUpTo(SoundExts, MaxExts) :
          b \in Prefixes(CertBytes(<<0, 0, 0, 1>>, Len(es), es))
    \* certificates whose extension count and lengths are arbitrary
    \/ \E es \in SeqsUpTo(AnyExts, MaxExts), n \in 0..(MaxExts + 1) :
          LET bytes == CertBytes(<<0, 0, 0, 1>>, n, es)
          IN  b = Buffer(bytes, Len(bytes), 0)
    \* certificates without extensions, over the range of expiration hours
    \/ \E h1 \in HourBytes, h2 \in HourBytes, h3 \in HourBytes, h4 \in HourBytes :
          b = Buffer(CertBytes(<<h1, h2, h3, h4>>, 0, <<>>), 104, 0)

ParseCertAct ==
    /\ proc = "running"
    /\ certRes = NoCert
    /\ LET r == ParseCertFromBytes(binCert)
       IN  /\ certRes' = r
           /\ proc' = IF r.status = "panic" THEN "panicked" ELSE "running"
    /\ last' = [NoCall EXCEPT !.op = "ParseCert"]
    /\ UNCHANGED <<desc, signs, wire, docs, parsed, binCert>>

InitCert ==
    /\ IsCertBuffer(binCert)
    /\ certRes = NoCert
    /\ desc = NewDescriptor(NoKey, <<>>)
    /\ proc = "running"
    /\ last = NoCall
    /\ signs = 0
    /\ wire = NoWire
    /\ docs = <<>>
    /\ parsed = NoParse

NextCert == ParseCertAct

SpecCert == InitCert /\ [][NextCert]_vars

----------------------------------------------------------------------------
(* Properties of ParseCertFromBytes *)

\* the layout a buffer declares, read from the wire form itself
DeclaredCount(b)  == At(b, 39)
DeclaredLen(b, o) == At(b, o) * 256 + At(b, o + 1)

RECURSIVE ExtOffsets(_, _, _)
\* the positions of the headers of n extensions, the first at position o
ExtOffsets(b, o, n) ==
    IF n = 0 THEN <<>>
    ELSE <<o>> \o ExtOffsets(b, o + 4 + DeclaredLen(b, o), n - 1)

RECURSIVE SumLens(_, _)
SumLens(b, offs) ==
    IF offs = <<>> THEN 0 ELSE 4 + DeclaredLen(b, Head(offs)) + SumLens(b, Tail(offs))

RECURSIVE Fits(_, _, _)
\* the headers and data of n extensions from position o, and the signature
\* after them, lie inside the first b.len bytes
Fits(b, o, n) ==
    IF n = 0 THEN o + Ed25519SignatureSize <= b.len
    ELSE /\ o + 4 <= b.len
         /\ Fits(b, o + 4 + DeclaredLen(b, o), n - 1)

TruncatedBuffer(b) == b.len < 40 \/ ~Fits(b, 40, DeclaredCount(b))

\* C6: on a buffer that ends before the layout it declares, the parser
\* returns an error value and does not panic.
C6_TruncatedBufferReturnsError ==
    (certRes # NoCert /\ TruncatedBuffer(binCert)) =>
        (certRes.status = "error" /\ proc = "running")

\* C8: the expiration date is the epoch plus 3600 seconds for each of the
\* hours the wire form gives, for every 32-bit hour count.
C8_ExpirationIsHoursTimes3600 ==
    certRes.status = "ok" =>
        certRes.cert.ExpirationDate
            = MulW(<<0, 0, 0, 0>> \o Slice(binCert, 2, 6), FromInt(3600, 8))

\* what a successful parse yields, in terms of the declared layout
ParsedAsDeclared(b, r) ==
    LET n    == DeclaredCount(b)
        offs == ExtOffsets(b, 40, n)
        end  == 40 + SumLens(b, offs)
        ExtAt(o) == [Type  |-> At(b, o + 2),
                     Flags |-> At(b, o + 3),
                     Data  |-> Slice(b, o + 4, o + 4 + DeclaredLen(b, o))]
    IN  /\ r.i = 40 + SumLens(b, offs) + 64
        /\ r.cert.Signature = Slice(b, end, end + 64)
        /\ DOMAIN r.cert.Extensions = {At(b, offs[k] + 2) : k \in 1..n}
        /\ \A k \in 1..n :
             (\A later \in (k + 1)..n : At(b, offs[later] + 2) # At(b, offs[k] + 2))
                => r.cert.Extensions[At(b, offs[k] + 2)] = ExtAt(offs[k])

\* C10 as stated: a successful parse consumes 40 + the sum of (4 + declared
\* length) + 64 bytes, which is the whole input; each extension's data
\* follows its header, the signature follows the last extension, and of two
\* extensions of one type the later is kept.
C10_ParseConsumesWholeInput ==
    certRes.status = "ok" =>
        (ParsedAsDeclared(binCert, certRes) /\ certRes.i = binCert.len)

\* C10 amended: a successful parse consumes 40 + the sum of (4 + declared
\* length) + 64 bytes, whatever the length of the input; each extension's
\* data follows its header, the signature follows the last extension, and of
\* two extensions of one type the later is kept.
C10_ParseFollowsDeclaredLayout ==
    certRes.status = "ok" => ParsedAsDeclared(binCert, certRes)

\* a successful parse of two extensions of one type and different data, in
\* a buffer that holds one byte more than the certificate
C10_Witness ==
    /\ certRes.status = "ok"
    /\ DeclaredCount(binCert) = 2
    /\ Cardinality(DOMAIN certRes.cert.Extensions) = 1
    /\ DeclaredLen(binCert, 40) # DeclaredLen(binCert, 44 + DeclaredLen(binCert, 40))
    /\ certRes.i < binCert.len

=============================================================================
